---- MODULE Spec2Model ----
(***************************************************************************)
(* A model of the Synacor virtual machine of jfredett/synacor: the 15-bit  *)
(* word type (u15.rs), address classification (address.rs), registers and  *)
(* arguments (register.rs, argument.rs), the instruction codec             *)
(* (instruction.rs) and the interpreter (vm.rs).                           *)
(*                                                                         *)
(* Rust panics (index out of bounds, arithmetic overflow in a build with   *)
(* overflow checks, explicit panic!) are modelled as the outcome "Panic".  *)
(* Whether u16 arithmetic overflow panics or wraps depends on the build    *)
(* profile; the variable overflow_checks is chosen once, in Init.          *)
(***************************************************************************)
EXTENDS Integers, Sequences, FiniteSets, TLC

VARIABLES
    instruction_pointer,  \* VM.instruction_pointer (vm.rs:13), the Address' u16
    stack,                \* VM.stack (vm.rs:14), top is the last element
    memory,               \* VM.memory (vm.rs:15), sparse: absent cells hold 0
    registers,            \* VM.registers (vm.rs:16), a tuple of 8 u16
    current_state,        \* VM.current_state (vm.rs:17)
    overflow_checks,      \* build profile: TRUE = debug (overflow panics)
    pc,                   \* where the caller of the VM is
    result,               \* what the last call of the caller returned
    last,                 \* the VM as it was before the last step, and the words it fetched
    steps,                \* number of calls of step so far
    loaded,               \* the offset and bytecode given to load_program
    stdout,               \* bytes printed by OUT
    word_in,              \* u15 operands and operation under evaluation
    word_out,             \* the outcomes of that evaluation
    codec_in,             \* an Instruction under encoding
    codec_out             \* its words and their decoding

vars == <<instruction_pointer, stack, memory, registers, current_state,
          overflow_checks, pc, result, last, steps, loaded, stdout,
          word_in, word_out, codec_in, codec_out>>

vm_vars == <<instruction_pointer, stack, memory, registers, current_state,
             pc, result, last, steps, loaded, stdout>>

-----------------------------------------------------------------------------
(* lib.rs: mod constants *)

REGISTER_0 == 32768
REGISTER_7 == 32775
MODULUS == 32768
U15_MAX == MODULUS - 1

(* the range of the machine type u16 *)
U16_BITS == 16
U16_RANGE == 2 ^ U16_BITS

(* the range of u8, the type of an input or output byte *)
U8_RANGE == 256

-----------------------------------------------------------------------------
(* Outcomes of partial operations on u16: a value, or a panic. *)

Val(v) == [panic |-> FALSE, v |-> v]
Panicked == [panic |-> TRUE, v |-> 0]

(* u16 primitive operators as rustc compiles them: with overflow checks the *)
(* operation panics on overflow, without them it wraps modulo 2^16.         *)
u16_add(x, y, checks) ==
    IF x + y >= U16_RANGE
    THEN (IF checks THEN Panicked ELSE Val((x + y) % U16_RANGE))
    ELSE Val(x + y)

(* x * y modulo 2^16, by halves of y so that no product leaves TLC's integers *)
u16_wrapping_mul(x, y) ==
    LET half == 2 ^ (U16_BITS \div 2)
    IN  ((((x * (y \div half)) % U16_RANGE) * half) + x * (y % half)) % U16_RANGE

u16_mul(x, y, checks) ==
    IF x # 0 /\ y > (U16_RANGE - 1) \div x
    THEN (IF checks THEN Panicked ELSE Val(u16_wrapping_mul(x, y)))
    ELSE Val(x * y)

u16_sub(x, y, checks) ==
    IF x < y
    THEN (IF checks THEN Panicked ELSE Val((x - y) % U16_RANGE))
    ELSE Val(x - y)

(* division and remainder by zero panic in every build *)
u16_div(x, y, checks) == IF y = 0 THEN Panicked ELSE Val(x \div y)

u16_rem(x, y, checks) == IF y = 0 THEN Panicked ELSE Val(x % y)

RECURSIVE bitwise(_, _, _, _)
bitwise(f, x, y, n) ==
    IF n = 0 THEN 0
    ELSE LET bx == x % 2
             by == y % 2
             b  == CASE f = "and" -> (IF bx = 1 /\ by = 1 THEN 1 ELSE 0)
                    []  f = "or"  -> (IF bx = 1 \/ by = 1 THEN 1 ELSE 0)
                    []  f = "xor" -> (IF bx # by THEN 1 ELSE 0)
         IN  b + 2 * bitwise(f, x \div 2, y \div 2, n - 1)

u16_bitand(x, y, checks) == Val(bitwise("and", x, y, U16_BITS))

u16_bitor(x, y, checks) == Val(bitwise("or", x, y, U16_BITS))

u16_bitxor(x, y, checks) == Val(bitwise("xor", x, y, U16_BITS))

u16_not(x) == bitwise("xor", x, U16_RANGE - 1, U16_BITS)

(* a shift by 16 or more overflows: a panic with overflow checks, otherwise *)
(* the shift amount is masked to the low 4 bits                             *)
u16_shl(x, n, checks) ==
    IF n >= U16_BITS
    THEN (IF checks THEN Panicked ELSE Val((x * 2 ^ (n % U16_BITS)) % U16_RANGE))
    ELSE Val((x * 2 ^ n) % U16_RANGE)

u16_shr(x, n, checks) ==
    IF n >= U16_BITS
    THEN (IF checks THEN Panicked ELSE Val(x \div 2 ^ (n % U16_BITS)))
    ELSE Val(x \div 2 ^ n)

-----------------------------------------------------------------------------
(* u15.rs: a u15 is a u16 in a wrapper; u15(x) wraps x as it is. *)

(* binop_trait!: u15($trait::$method(self.0, rhs.0) % MODULUS) *)
u15_reduce_unreduced(r) == r

u15_reduce(r) == IF r.panic THEN Panicked ELSE Val(r.v % MODULUS)

u15_add_unreduced(a, b, checks) == u16_add(a, b, checks)

u15_add(a, b, checks) == u15_reduce(u16_add(a, b, checks))

u15_mul(a, b, checks) == u15_reduce(u16_mul(a, b, checks))

u15_sub(a, b, checks) == u15_reduce(u16_sub(a, b, checks))

u15_div(a, b, checks) == u15_reduce(u16_div(a, b, checks))

u15_rem(a, b, checks) == u15_reduce(u16_rem(a, b, checks))

u15_bitand(a, b, checks) == u15_reduce(u16_bitand(a, b, checks))

(* | taken as exclusive or *)
u15_bitor_exclusive(a, b, checks) == u15_reduce(u16_bitxor(a, b, checks))

u15_bitor(a, b, checks) == u15_reduce(u16_bitor(a, b, checks))

u15_bitxor(a, b, checks) == u15_reduce(u16_bitxor(a, b, checks))

u15_shl(a, n, checks) == u15_reduce(u16_shl(a, n, checks))

u15_shr(a, n, checks) == u15_reduce(u16_shr(a, n, checks))

(* binop_assign_trait!: $trait::$method(&mut self.0, rhs.0), the u16 operator *)
(* applied in place; what is left in self.0 is the u16 result as it is.      *)
binop_assign_trait(method, a, b, checks) ==
    CASE method = "add_assign"    -> u16_add(a, b, checks)
      [] method = "mul_assign"    -> u16_mul(a, b, checks)
      [] method = "sub_assign"    -> u16_sub(a, b, checks)
      [] method = "div_assign"    -> u16_div(a, b, checks)
      [] method = "rem_assign"    -> u16_rem(a, b, checks)
      [] method = "bitand_assign" -> u16_bitand(a, b, checks)
      [] method = "bitor_assign"  -> u16_bitor(a, b, checks)
      [] method = "bitxor_assign" -> u16_bitxor(a, b, checks)
      [] method = "shl_assign"    -> u16_shl(a, b, checks)
      [] method = "shr_assign"    -> u16_shr(a, b, checks)

(* impl Not for u15: u15((!self.0) % MODULUS) *)
u15_not_unmasked(a) == u16_not(a)

u15_not(a) == u16_not(a) % MODULUS

-----------------------------------------------------------------------------
(* address.rs: an Address is a u16; the predicates take its value. *)

is_valid(a) == a <= REGISTER_7

is_invalid(a) == ~is_valid(a)

is_register(a) == REGISTER_0 <= a /\ a <= REGISTER_7

is_memory(a) == is_valid(a) /\ ~is_register(a)

-----------------------------------------------------------------------------
(* Tagged values: a Register ("R"), an Argument ("Literal" of a u15 or       *)
(* "Register" of a register index), an Address, or the panic of the          *)
(* constructor.                                                              *)

Tagged(t, v) == [tag |-> t, v |-> v]

PanicValue == Tagged("Panic", 0)

(* register.rs: Register::new. u - REGISTER_0 is a u16 subtraction; whatever *)
(* it yields outside 0..7 reaches the panic! of the last branch.             *)
Register_new(u, checks) ==
    LET r_addr == u16_sub(u, REGISTER_0, checks)
    IN  IF r_addr.panic THEN PanicValue
        ELSE IF r_addr.v <= 7 THEN Tagged("R", r_addr.v)
        ELSE PanicValue

(* register.rs: Register::as_index, Register::to_u16 *)
Register_as_index(r) == r.v

Register_to_u16(r) == REGISTER_0 + r.v

(* argument.rs: Argument::new *)
Argument_new_gt(u, checks) ==
    IF u > REGISTER_0
    THEN LET r == Register_new(u, checks)
         IN  IF r.tag = "Panic" THEN PanicValue ELSE Tagged("Register", r.v)
    ELSE Tagged("Literal", u)

Argument_new(u, checks) ==
    IF u >= REGISTER_0
    THEN LET r == Register_new(u, checks)
         IN  IF r.tag = "Panic" THEN PanicValue ELSE Tagged("Register", r.v)
    ELSE Tagged("Literal", u)

(* argument.rs: Argument::to_u16 *)
Argument_to_u16(a) ==
    IF a.tag = "Literal" THEN a.v ELSE Register_to_u16(Tagged("R", a.v))

(* address.rs: Address::new, Address::to_u16 *)
Address_new(u) == Tagged("Address", u)

Address_to_u16(a) == a.v

-----------------------------------------------------------------------------
(* instruction.rs *)

(* Instruction::arg_count: Some(n) is n, None is -1 *)
arg_count_all_zero(opcode) == 0

arg_count(opcode) ==
    CASE opcode = 0 -> 0
      [] opcode = 1 -> 2
      [] opcode = 2 -> 1
      [] opcode = 3 -> 1
      [] opcode = 4 -> 3
      [] opcode = 5 -> 3
      [] opcode = 6 -> 1
      [] opcode = 7 -> 2
      [] opcode = 8 -> 2
      [] opcode = 9 -> 3
      [] opcode = 10 -> 3
      [] opcode = 11 -> 3
      [] opcode = 12 -> 3
      [] opcode = 13 -> 3
      [] opcode = 14 -> 2
      [] opcode = 15 -> 2
      [] opcode = 16 -> 2
      [] opcode = 17 -> 1
      [] opcode = 18 -> 0
      [] opcode = 19 -> 1
      [] opcode = 20 -> 1
      [] opcode = 21 -> 0
      [] OTHER -> -1

(* An Instruction is its variant name and its fields, in order. *)
Instr(name, args) == [name |-> name, args |-> args]

HALT_I == Instr("HALT", <<>>)

(* The word each field of a variant is written as (to_u16 of its type). *)
field_to_u16(x) ==
    CASE x.tag = "R" -> Register_to_u16(x)
      [] x.tag = "Address" -> Address_to_u16(x)
      [] OTHER -> Argument_to_u16(x)

(* Instruction::to_u16_sequence: the opcode, then each field's to_u16 *)
opcode_word(name) ==
    CASE name = "HALT" -> 0
      [] name = "SET"  -> 1
      [] name = "PUSH" -> 2
      [] name = "POP"  -> 3
      [] name = "EQ"   -> 4
      [] name = "GT"   -> 5
      [] name = "JMP"  -> 6
      [] name = "JT"   -> 7
      [] name = "JF"   -> 8
      [] name = "ADD"  -> 9
      [] name = "MULT" -> 10
      [] name = "MOD"  -> 11
      [] name = "AND"  -> 12
      [] name = "OR"   -> 13
      [] name = "NOT"  -> 14
      [] name = "RMEM" -> 15
      [] name = "WMEM" -> 16
      [] name = "CALL" -> 17
      [] name = "RET"  -> 18
      [] name = "OUT"  -> 19
      [] name = "IN"   -> 20
      [] name = "NOOP" -> 21

to_u16_sequence_short(i) == <<opcode_word(i.name)>>

to_u16_sequence(i) ==
    <<opcode_word(i.name)>> \o [k \in 1 .. Len(i.args) |-> field_to_u16(i.args[k])]

(* Instruction::from_u16_sequence: per opcode, the variant and the           *)
(* constructor applied to each following word: "R" is Register::new, "A" is  *)
(* Argument::new, "D" is Address::new.                                       *)
variant(opcode) ==
    CASE opcode = 0  -> <<"HALT">>
      [] opcode = 1  -> <<"SET", "R", "A">>
      [] opcode = 2  -> <<"PUSH", "A">>
      [] opcode = 3  -> <<"POP", "R">>
      [] opcode = 4  -> <<"EQ", "R", "A", "A">>
      [] opcode = 5  -> <<"GT", "R", "A", "A">>
      [] opcode = 6  -> <<"JMP", "A">>
      [] opcode = 7  -> <<"JT", "A", "A">>
      [] opcode = 8  -> <<"JF", "A", "A">>
      [] opcode = 9  -> <<"ADD", "R", "A", "A">>
      [] opcode = 10 -> <<"MULT", "R", "A", "A">>
      [] opcode = 11 -> <<"MOD", "R", "A", "A">>
      [] opcode = 12 -> <<"AND", "R", "A", "A">>
      [] opcode = 13 -> <<"OR", "R", "A", "A">>
      [] opcode = 14 -> <<"NOT", "R", "A">>
      [] opcode = 15 -> <<"RMEM", "R", "D">>
      [] opcode = 16 -> <<"WMEM", "D", "A">>
      [] opcode = 17 -> <<"CALL", "D">>
      [] opcode = 18 -> <<"RET">>
      [] opcode = 19 -> <<"OUT", "A">>
      [] opcode = 20 -> <<"IN", "D">>
      [] opcode = 21 -> <<"NOOP">>
      [] OTHER -> <<>>

construct(kind, word, checks) ==
    CASE kind = "R" -> Register_new(word, checks)
      [] kind = "A" -> Argument_new(word, checks)
      [] kind = "D" -> Address_new(word)

(* The outcome is Some(i), None, or a panic: of a constructor, or of seq[k]  *)
(* read past the end of seq.                                                 *)
Decoded(t, i) == [tag |-> t, i |-> i]

from_u16_sequence(seq, checks) ==
    LET v == variant(seq[1])
    IN  IF v = <<>> THEN Decoded("None", HALT_I)
        ELSE IF Len(seq) < Len(v) THEN Decoded("Panic", HALT_I)
        ELSE LET args == [k \in 1 .. (Len(v) - 1) |-> construct(v[k + 1], seq[k + 1], checks)]
             IN  IF \E k \in 1 .. Len(args) : args[k].tag = "Panic"
                 THEN Decoded("Panic", HALT_I)
                 ELSE Decoded("Some", Instr(v[1], args))

-----------------------------------------------------------------------------
(* vm.rs: the machine. A machine value m holds the fields of struct VM and   *)
(* the bytes written to standard output.                                     *)

(* memory: [u16; U15_MAX as usize], zero-initialised; index >= MEMORY_CELLS  *)
(* is out of bounds                                                          *)
MEMORY_CELLS == U15_MAX

EmptyMemory == [x \in {} |-> 0]

Cell(mem, a) == IF a \in DOMAIN mem THEN mem[a] ELSE 0

SetCell(mem, a, v) ==
    IF v = 0
    THEN [x \in (DOMAIN mem) \ {a} |-> mem[x]]
    ELSE [x \in (DOMAIN mem) \cup {a} |-> IF x = a THEN v ELSE mem[x]]

(* VM::init *)
VM_init ==
    [instruction_pointer |-> 0,
     stack |-> <<>>,
     memory |-> EmptyMemory,
     registers |-> [k \in 1 .. 8 |-> 0],
     current_state |-> "HALT",
     stdout |-> <<>>]

(* VMResult, or a panic. val is the VMState or the VMError variant, arg the  *)
(* u16 the error carries.                                                    *)
Ok(state) == [kind |-> "Ok", val |-> state, arg |-> 0]
Err(e, x) == [kind |-> "Err", val |-> e, arg |-> x]
Panic == [kind |-> "Panic", val |-> "panic", arg |-> 0]
NoResult == [kind |-> "None", val |-> "none", arg |-> 0]

Outcome(m, res) == [m |-> m, res |-> res]

(* VM::read_register *)
read_register(m, r) == m.registers[Register_as_index(r) + 1]

(* VM::parse_argument *)
parse_argument_unresolved(m, arg) ==
    IF arg.tag = "Literal" THEN arg.v ELSE Argument_to_u16(arg)

parse_argument(m, arg) ==
    IF arg.tag = "Literal" THEN arg.v ELSE read_register(m, Tagged("R", arg.v))

(* VM::write_register *)
write_register_and_cell(m, r, a) ==
    Outcome([m EXCEPT !.registers[Register_as_index(r) + 1] = parse_argument(m, a),
                      !.memory = SetCell(m.memory, Register_as_index(r), 1 + parse_argument(m, a))],
            Ok("RUN"))

write_register(m, r, a) ==
    LET arg == parse_argument(m, a)
    IN  Outcome([m EXCEPT !.registers[Register_as_index(r) + 1] = arg], Ok("RUN"))

(* VM::write_memory: an index past the array panics *)
write_memory(m, address, value) ==
    IF address >= MEMORY_CELLS
    THEN Outcome(m, Panic)
    ELSE Outcome([m EXCEPT !.memory = SetCell(m.memory, address, value)], Ok("RUN"))

(* VM::read_memory: Err for an invalid address, a panic for an index past    *)
(* the array, otherwise the cell (in arg)                                    *)
read_memory(m, location) ==
    IF is_invalid(location) THEN Err("InvalidMemoryAccess", location)
    ELSE IF location >= MEMORY_CELLS THEN Panic
    ELSE [kind |-> "Ok", val |-> "cell", arg |-> Cell(m.memory, location)]

(* Address::next: self.0 += 1 *)
Address_next(a, checks) == u16_add(a, 1, checks)

(* VM::advance: the read, then the increment *)
advance_in_place(m, checks) == Outcome(m, read_memory(m, m.instruction_pointer))

advance(m, checks) ==
    LET ret == read_memory(m, m.instruction_pointer)
        nxt == Address_next(m.instruction_pointer, checks)
    IN  IF ret.kind = "Panic" \/ nxt.panic THEN Outcome(m, Panic)
        ELSE Outcome([m EXCEPT !.instruction_pointer = nxt.v], ret)

(* VM::current_instruction: the loop "for _ in 0..arg_count" as a recursion. *)
(* Returns the machine, the result, the words fetched and the instruction.   *)
Fetched(m, res, seq, i) == [m |-> m, res |-> res, seq |-> seq, i |-> i]

RECURSIVE fetch_arguments(_, _, _, _)
fetch_next(a, seq, n, checks) ==
    IF a.res.kind # "Ok" THEN Fetched(a.m, a.res, seq, HALT_I)
    ELSE fetch_arguments(a.m, Append(seq, a.res.arg), n - 1, checks)

fetch_arguments(m, seq, n, checks) ==
    IF n = 0 THEN Fetched(m, Ok("RUN"), seq, HALT_I)
    ELSE fetch_next(advance(m, checks), seq, n, checks)

(* match Instruction::from_u16_sequence(&opcode_sequence) *)
decode_fetched(f, d) ==
    CASE d.tag = "Some" -> Fetched(f.m, Ok("RUN"), f.seq, d.i)
      [] d.tag = "None" -> Fetched(f.m, Err("MalformedInstruction", 0), f.seq, HALT_I)
      [] OTHER -> Fetched(f.m, Panic, f.seq, HALT_I)

decode_arguments(f, checks) ==
    IF f.res.kind # "Ok" THEN f ELSE decode_fetched(f, from_u16_sequence(f.seq, checks))

(* match Instruction::arg_count(opcode) *)
decode_opcode(o, opcode, checks) ==
    IF arg_count(opcode) < 0
    THEN Fetched(o.m, Err("BadOpcode", opcode), <<opcode>>, HALT_I)
    ELSE decode_arguments(fetch_arguments(o.m, <<opcode>>, arg_count(opcode), checks), checks)

fetch_opcode(o, checks) ==
    IF o.res.kind # "Ok" THEN Fetched(o.m, o.res, <<>>, HALT_I)
    ELSE decode_opcode(o, o.res.arg, checks)

current_instruction(m, checks) == fetch_opcode(advance(m, checks), checks)

(* VM::jump *)
jump_unchecked(m, arg) ==
    Outcome([m EXCEPT !.instruction_pointer = parse_argument(m, arg)], Ok("RUN"))

jump(m, arg) ==
    LET addr == parse_argument(m, arg)
    IN  IF is_memory(addr)
        THEN Outcome([m EXCEPT !.instruction_pointer = addr], Ok("RUN"))
        ELSE IF is_register(addr) \/ is_invalid(addr)
        THEN Outcome(m, Err("JumpOutOfBounds", addr))
        ELSE Outcome(m, Err("UnknownError", 0))

(* VM::push *)
push_twice(m, arg) ==
    [m EXCEPT !.stack = Append(Append(m.stack, parse_argument(m, arg)), parse_argument(m, arg))]

push(m, arg) == [m EXCEPT !.stack = Append(m.stack, parse_argument(m, arg))]

(* VM::call: Argument::new(cur_ptr) may panic; the push comes before the jump *)
call_without_push(m, a, checks) == jump(m, a)

call(m, a, checks) ==
    LET cur_ptr == Argument_new(m.instruction_pointer, checks)
    IN  IF cur_ptr.tag = "Panic" THEN Outcome(m, Panic)
        ELSE jump(push(m, cur_ptr), a)

(* Vec::pop *)
Popped(m) == [m EXCEPT !.stack = SubSeq(m.stack, 1, Len(m.stack) - 1)]

Top(m) == m.stack[Len(m.stack)]

(* VM::ret *)
ret_underflow(m, checks) ==
    IF m.stack = <<>> THEN Outcome(m, Err("StackUnderflow", 0))
    ELSE LET v == Argument_new(Top(m), checks)
         IN  IF v.tag = "Panic" THEN Outcome(Popped(m), Panic)
             ELSE jump(Popped(m), v)

ret_without_pop(m, checks) ==
    IF m.stack = <<>> THEN Outcome(m, Ok("HALT"))
    ELSE LET v == Argument_new(Top(m), checks)
         IN  IF v.tag = "Panic" THEN Outcome(m, Panic)
             ELSE jump(m, v)

ret(m, checks) ==
    IF m.stack = <<>> THEN Outcome(m, Ok("HALT"))
    ELSE LET v == Argument_new(Top(m), checks)
         IN  IF v.tag = "Panic" THEN Outcome(Popped(m), Panic)
             ELSE jump(Popped(m), v)

(* VM::pop *)
pop_halts_when_empty(m, r, checks) ==
    IF m.stack = <<>> THEN Outcome(m, Ok("HALT"))
    ELSE LET v == Argument_new(Top(m), checks)
         IN  IF v.tag = "Panic" THEN Outcome(Popped(m), Panic)
             ELSE write_register(Popped(m), r, v)

pop(m, r, checks) ==
    IF m.stack = <<>> THEN Outcome(m, Err("StackUnderflow", 0))
    ELSE LET v == Argument_new(Top(m), checks)
         IN  IF v.tag = "Panic" THEN Outcome(Popped(m), Panic)
             ELSE write_register(Popped(m), r, v)

(* VM::check_true *)
(* the test of check_true inverted *)
check_true_negated(m, arg) == parse_argument(m, arg) = 0

check_true(m, arg) == parse_argument(m, arg) > 0

(* VM::rmem *)
rmem(m, r, a) ==
    LET addr == parse_argument(m, a)
        mem == read_memory(m, addr)
    IN  CASE mem.kind = "Ok" -> write_register(m, r, Tagged("Literal", mem.arg))
          [] mem.kind = "Panic" -> Outcome(m, Panic)
          [] OTHER -> Outcome(m, Err("InvalidMemoryAccess", addr))

(* VM::wmem *)
wmem_swapped(m, t, v) ==
    LET target == parse_argument(m, t)
        value == parse_argument(m, v)
    IN  write_memory(m, value, target)

wmem(m, t, v) ==
    LET target == parse_argument(m, t)
        value == parse_argument(m, v)
    IN  write_memory(m, target, value)

(* VM::write_output: "as u8" keeps the low 8 bits; a char from a u8 is ASCII *)
(* when it is at most 127                                                    *)
write_output(m, arg) ==
    LET chr == parse_argument(m, arg) % U8_RANGE
    IN  IF chr > 127 THEN Outcome(m, Err("InvalidCharacterArgument", Argument_to_u16(arg)))
        ELSE Outcome([m EXCEPT !.stdout = Append(m.stdout, chr)], Ok("RUN"))

(* VM::read_input: byte is what read_exact left in buf[0] (0 at end of input) *)
read_input(m, a, byte, checks) ==
    IF a.tag = "Literal"
    THEN write_memory(m, a.v, byte)
    ELSE write_register(m, Tagged("R", a.v), Argument_new(byte, checks))

(* instruction.rs declares the first operand of RMEM, WMEM, CALL and IN an   *)
(* Address, vm.rs takes it as an Argument; the only constructor of an        *)
(* Argument from a u16 is Argument::new.                                     *)
as_argument(x, checks) ==
    IF x.tag = "Address" THEN Argument_new(Address_to_u16(x), checks) ELSE x

(* the arms of execute_instruction that compute a u15 and write it to r *)
write_u15(m, r, value) ==
    IF value.panic THEN Outcome(m, Panic)
    ELSE write_register(m, r, Tagged("Literal", value.v))

(* derived PartialEq and PartialOrd of u15(pub u16) compare the wrapped u16 *)
u15_eq(a, b) == a = b

(* the order taken non-strict *)
u15_gt_or_equal(a, b) == a >= b

u15_gt(a, b) == a > b

(* VM::execute_instruction, on the variant's name and its fields x *)
execute(m, name, x, checks, byte) ==
    LET a == parse_argument(m, x[2])
        b == parse_argument(m, x[3])
    IN  IF \E k \in 1 .. Len(x) : x[k].tag = "Panic" THEN Outcome(m, Panic)
        ELSE CASE name = "HALT" -> Outcome(m, Ok("HALT"))
          [] name = "SET"  -> write_register(m, x[1], x[2])
          [] name = "PUSH" -> Outcome(push(m, x[1]), Ok("RUN"))
          [] name = "POP"  -> pop(m, x[1], checks)
          [] name = "EQ"   ->
                 IF u15_eq(a, b)
                 THEN write_register(m, x[1], Argument_new(1, checks))
                 ELSE write_register(m, x[1], Argument_new(0, checks))
          [] name = "GT"   ->
                 IF u15_gt(a, b)
                 THEN write_register(m, x[1], Argument_new(1, checks))
                 ELSE write_register(m, x[1], Argument_new(0, checks))
          [] name = "JMP"  -> jump(m, x[1])
          [] name = "JT"   ->
                 IF check_true(m, x[1]) THEN jump(m, x[2]) ELSE Outcome(m, Ok("RUN"))
          [] name = "JF"   ->
                 IF ~check_true(m, x[1]) THEN jump(m, x[2]) ELSE Outcome(m, Ok("RUN"))
          [] name = "ADD"  -> write_u15(m, x[1], u15_add(a, b, checks))
          [] name = "MULT" -> write_u15(m, x[1], u15_mul(a, b, checks))
          [] name = "MOD"  -> write_u15(m, x[1], u15_rem(a, b, checks))
          [] name = "AND"  -> write_u15(m, x[1], u15_bitand(a, b, checks))
          [] name = "OR"   -> write_u15(m, x[1], u15_bitor(a, b, checks))
          [] name = "NOT"  -> write_u15(m, x[1], Val(u15_not(a)))
          [] name = "RMEM" -> rmem(m, x[1], x[2])
          [] name = "WMEM" -> wmem(m, x[1], x[2])
          [] name = "CALL" -> call(m, x[1], checks)
          [] name = "RET"  -> ret(m, checks)
          [] name = "OUT"  -> write_output(m, x[1])
          [] name = "IN"   -> read_input(m, x[1], byte, checks)
          [] name = "NOOP" -> Outcome(m, Ok("RUN"))

execute_instruction(m, i, checks, byte) ==
    execute(m, i.name, [k \in 1 .. Len(i.args) |-> as_argument(i.args[k], checks)], checks, byte)

(* VM::step. Returns the outcome with the words fetched and the variant      *)
(* decoded ("none" when decoding did not yield an instruction).              *)
Stepped(o, seq, name) == [m |-> o.m, res |-> o.res, seq |-> seq, name |-> name]

(* step storing the state it returns *)
step_fetched_storing(f, checks, byte) ==
    IF f.res.kind = "Ok"
    THEN LET o == execute_instruction(f.m, f.i, checks, byte)
         IN  Stepped(IF o.res.kind = "Ok"
                     THEN Outcome([o.m EXCEPT !.current_state = o.res.val], o.res)
                     ELSE o,
                     f.seq, f.i.name)
    ELSE Stepped(Outcome(f.m, f.res), f.seq, "none")

step_fetched(f, checks, byte) ==
    IF f.res.kind = "Ok"
    THEN Stepped(execute_instruction(f.m, f.i, checks, byte), f.seq, f.i.name)
    ELSE Stepped(Outcome(f.m, f.res), f.seq, "none")

step(m, checks, byte) == step_fetched(current_instruction(m, checks), checks, byte)

(* VM::load_program: the loop over bytecode as a recursion *)
RECURSIVE load_program(_, _, _, _)
load_program(m, write_addr, bytecode, checks) ==
    IF bytecode = <<>> THEN Outcome(m, Ok("loaded"))
    ELSE IF is_valid(write_addr)
         THEN LET w == write_memory(m, write_addr, Head(bytecode))
                  nxt == Address_next(write_addr, checks)
              IN  IF w.res.kind = "Panic" \/ nxt.panic THEN Outcome(w.m, Panic)
                  ELSE load_program(w.m, nxt.v, Tail(bytecode), checks)
         ELSE Outcome(m, Panic)

-----------------------------------------------------------------------------
(* The caller: VM::init(), one load_program, then step() and run() in any    *)
(* order. run is its loop: Run enters it, RunStep is one iteration,          *)
(* RunReturn its exit.                                                       *)

(* at most MaxSteps calls of step are followed *)
MaxSteps == 4

R0w == REGISTER_0
R1w == REGISTER_0 + 1

RegisterWords == {R0w, R1w}

OperandWords == {3, U15_MAX, R0w, R1w}

(* one instruction under test, as words; the last rows are words that do not *)
(* decode                                                                    *)
InstructionWords ==
    {<<0>>, <<18>>, <<21>>}
    \cup {<<op, r, a, b>> : op \in {4, 5, 9, 10, 11, 12, 13},
                            r \in RegisterWords, a \in OperandWords, b \in OperandWords}
    \cup {<<op, r, a>> : op \in {1, 14, 15}, r \in RegisterWords, a \in OperandWords}
    \cup {<<op, a, b>> : op \in {7, 8, 16}, a \in OperandWords, b \in OperandWords}
    \cup {<<op, a>> : op \in {2, 6, 17, 19, 20}, a \in OperandWords}
    \cup {<<3, r>> : r \in RegisterWords \cup {REGISTER_7}}
    \cup {<<22>>, <<R0w>>, <<65535>>, <<9>>, <<9, R0w, 40000, 1>>, <<1, 3, 3>>,
          <<17, 40000>>, <<2, REGISTER_7 + 1>>, <<19, U8_RANGE + 65>>}

(* instructions run before it, to give R0 and the stack their contents; own  *)
(* is the address of a cell holding the word R0w, data of one holding 40000  *)
PrefixKinds == {"none", "set", "setmax", "push", "own", "data", "ownpush", "datapush", "call"}

Prefix(kind, own, data) ==
    CASE kind = "none"     -> <<>>
      [] kind = "set"      -> <<1, R0w, 5>>
      [] kind = "setmax"   -> <<1, R0w, U15_MAX>>
      [] kind = "push"     -> <<2, 5>>
      [] kind = "own"      -> <<15, R0w, own>>
      [] kind = "data"     -> <<15, R0w, data>>
      [] kind = "ownpush"  -> <<15, R0w, own, 2, R0w>>
      [] kind = "datapush" -> <<15, R0w, data, 2, R0w>>
      [] kind = "call"     -> <<17, own + 2, 0>>

(* the program loaded at offset: prefix, instruction and, when the prefix    *)
(* reads the data word, HALT and the data word; the prefix "call" is CALL t; *)
(* HALT with t the address of the instruction, and RET follows it            *)
Program(kind, instruction, offset) ==
    LET n == Len(Prefix(kind, 0, 0))
        prefix == Prefix(kind, offset + 1, offset + n + Len(instruction) + 1)
    IN  prefix \o instruction
            \o (CASE kind \in {"data", "datapush"} -> <<0, 40000>>
                  [] kind = "call" -> <<18>>
                  [] OTHER -> <<>>)

ProgramLen(kind, instruction) == Len(Program(kind, instruction, 0))

(* whole programs: RMEM R0 @own; PUSH R0; SET R0 3; RET (the stack holds the  *)
(* word 32768 while R0 holds 3); WMEM t 21; RMEM R1 t; and the cell t that   *)
(* the WMEM overwrites; SET R0 15; JMP R0                                    *)
ScenarioKinds == {"retregister", "wmemfetch", "setjmp"}

Scenario(kind, offset) ==
    CASE kind = "retregister" -> <<15, R0w, offset + 1, 2, R0w, 1, R0w, 3, 18>>
      [] kind = "wmemfetch"   -> <<16, offset + 6, 21, 15, R1w, offset + 6, 0>>
      [] kind = "setjmp"      -> <<1, R0w, 15, 6, R0w>>

(* a program is loaded at 0, so that its last word is in the last cell, or   *)
(* so that its last word is at address 32767                                 *)
Offsets(len) == {0, MEMORY_CELLS - len, MODULUS - len}

(* what read_exact leaves in buf[0]: a byte read, or 0 at end of input *)
InputBytes == {0, 65, 255}

Machine ==
    [instruction_pointer |-> instruction_pointer,
     stack |-> stack,
     memory |-> memory,
     registers |-> registers,
     current_state |-> current_state,
     stdout |-> stdout]

SetMachine(m) ==
    /\ instruction_pointer' = m.instruction_pointer
    /\ stack' = m.stack
    /\ memory' = m.memory
    /\ registers' = m.registers
    /\ current_state' = m.current_state
    /\ stdout' = m.stdout

Returned(by, res) == [by |-> by, kind |-> res.kind, val |-> res.val, arg |-> res.arg]

(* a step as kept in last.prev and last.prev2: the step before the last one  *)
(* and the step before that                                                  *)
Brief(l) == [m |-> l.m, res |-> l.res, seq |-> l.seq, name |-> l.name]

(* last.after is the machine as the last step left it; last.run_from is the  *)
(* number of steps taken when run was last entered (-1 before any run)       *)
NoStep ==
    [m |-> VM_init, res |-> NoResult, seq |-> <<>>, name |-> "none", after |-> VM_init,
     run_from |-> -1,
     prev |-> [m |-> VM_init, res |-> NoResult, seq |-> <<>>, name |-> "none"],
     prev2 |-> [m |-> VM_init, res |-> NoResult, seq |-> <<>>, name |-> "none"]]

NoWord == [op |-> "none", a |-> 0, b |-> 0]

NoWordOut == [done |-> FALSE, res |-> Panicked, executed |-> FALSE, reg |-> Panicked]

NoCodec ==
    [phase |-> "none", seq |-> <<>>, tag |-> "None", i |-> HALT_I,
     counted |-> FALSE, opcode |-> 0, count |-> 0]

Fresh ==
    /\ instruction_pointer = VM_init.instruction_pointer
    /\ stack = VM_init.stack
    /\ memory = VM_init.memory
    /\ registers = VM_init.registers
    /\ current_state = VM_init.current_state
    /\ stdout = VM_init.stdout
    /\ overflow_checks \in BOOLEAN
    /\ pc = "init"
    /\ result = Returned("none", NoResult)
    /\ last = NoStep
    /\ steps = 0
    /\ loaded = [offset |-> 0, bytecode |-> <<>>]

Init ==
    /\ Fresh
    /\ word_in = NoWord
    /\ word_out = NoWordOut
    /\ codec_in = HALT_I
    /\ codec_out = NoCodec

others == <<overflow_checks, word_in, word_out, codec_in, codec_out>>

(* vm.load_program(offset, &bytecode) on the fresh machine *)
LoadProgram(offset, bytecode) ==
    /\ pc = "init"
    /\ \E o \in {load_program(Machine, offset, bytecode, overflow_checks)} :
           /\ SetMachine(o.m)
           /\ pc' = IF o.res.kind = "Panic" THEN "panicked" ELSE "idle"
           /\ result' = Returned("load", o.res)
    /\ loaded' = [offset |-> offset, bytecode |-> bytecode]
    /\ UNCHANGED <<last, steps, others>>

(* vm.run(start): the two assignments before the loop *)
Run(start) ==
    /\ pc = "idle"
    /\ steps < MaxSteps
    /\ instruction_pointer' = start
    /\ current_state' = "RUN"
    /\ pc' = "run"
    /\ last' = [last EXCEPT !.run_from = steps]
    /\ UNCHANGED <<stack, memory, registers, stdout, result, steps, loaded, others>>

(* VM::is_running *)
is_running_negated(m) == m.current_state # "RUN"

is_running(m) == m.current_state = "RUN"

(* Ok(state) => self.current_state = state *)
run_store(m, state) == [m EXCEPT !.current_state = state]

(* one iteration of run's loop, entered while is_running(): match            *)
(* self.step(); Ok stores the state, Err returns at once                     *)
RunStep(byte) ==
    /\ pc = "run"
    /\ is_running(Machine)
    /\ steps < MaxSteps
    /\ \E s \in {step(Machine, overflow_checks, byte)} :
           /\ last' = [m |-> Machine, res |-> s.res, seq |-> s.seq, name |-> s.name,
                       after |-> s.m, run_from |-> last.run_from,
                       prev |-> Brief(last), prev2 |-> last.prev]
           /\ SetMachine(IF s.res.kind = "Ok" THEN run_store(s.m, s.res.val) ELSE s.m)
           /\ pc' = CASE s.res.kind = "Ok" -> "run"
                      [] s.res.kind = "Err" -> "idle"
                      [] OTHER -> "panicked"
           /\ result' = IF s.res.kind = "Ok" THEN result ELSE Returned("run", s.res)
    /\ steps' = steps + 1
    /\ UNCHANGED <<loaded, others>>

(* the loop's exit: return Ok(self.current_state) *)
RunReturn ==
    /\ pc = "run"
    /\ ~is_running(Machine)
    /\ pc' = "idle"
    /\ result' = Returned("run", Ok(current_state))
    /\ UNCHANGED <<instruction_pointer, stack, memory, registers, current_state, stdout,
                   last, steps, loaded, others>>

(* vm.step() called directly *)
Step(byte) ==
    /\ pc = "idle"
    /\ steps < MaxSteps
    /\ \E s \in {step(Machine, overflow_checks, byte)} :
           /\ last' = [m |-> Machine, res |-> s.res, seq |-> s.seq, name |-> s.name,
                       after |-> s.m, run_from |-> last.run_from,
                       prev |-> Brief(last), prev2 |-> last.prev]
           /\ SetMachine(s.m)
           /\ pc' = IF s.res.kind = "Panic" THEN "panicked" ELSE "idle"
           /\ result' = Returned("step", s.res)
    /\ steps' = steps + 1
    /\ UNCHANGED <<loaded, others>>

Load ==
    /\ pc = "init"
    /\ \/ \E kind \in PrefixKinds, i \in InstructionWords :
              \E offset \in Offsets(ProgramLen(kind, i)) :
                  LoadProgram(offset, Program(kind, i, offset))
       \/ \E kind \in ScenarioKinds :
              \E offset \in Offsets(Len(Scenario(kind, 0))) :
                  LoadProgram(offset, Scenario(kind, offset))

Next ==
    \/ Load
    \/ Run(loaded.offset)
    \/ \E byte \in InputBytes : RunStep(byte)
    \/ RunReturn
    \/ \E byte \in InputBytes : Step(byte)

Spec == Init /\ [][Next]_vars

-----------------------------------------------------------------------------
(* The u15 operators on their own: InitWord draws an operator and operands   *)
(* (any u16: u15(x) wraps x unreduced), WordApply evaluates the operator     *)
(* and, for the operators an instruction uses, executes that instruction on  *)
(* a machine holding the operands in R0 and R1, with destination R2.         *)

AssignOperators ==
    {"add_assign", "mul_assign", "sub_assign", "div_assign", "rem_assign",
     "bitand_assign", "bitor_assign", "bitxor_assign", "shl_assign", "shr_assign"}

WordOperators ==
    {"add", "mul", "sub", "div", "rem", "bitand", "bitor", "bitxor", "shl", "shr", "not"}
    \cup AssignOperators

WordSamples == {0, 1, 2, 15, 16, 17, U15_MAX, MODULUS, 40000, U16_RANGE - 1}

word_apply(op, a, b, checks) ==
    CASE op = "add"    -> u15_add(a, b, checks)
      [] op = "mul"    -> u15_mul(a, b, checks)
      [] op = "sub"    -> u15_sub(a, b, checks)
      [] op = "div"    -> u15_div(a, b, checks)
      [] op = "rem"    -> u15_rem(a, b, checks)
      [] op = "bitand" -> u15_bitand(a, b, checks)
      [] op = "bitor"  -> u15_bitor(a, b, checks)
      [] op = "bitxor" -> u15_bitxor(a, b, checks)
      [] op = "shl"    -> u15_shl(a, b, checks)
      [] op = "shr"    -> u15_shr(a, b, checks)
      [] op = "not"    -> Val(u15_not(a))
      [] op \in AssignOperators -> binop_assign_trait(op, a, b, checks)

InstructionOf(op) ==
    CASE op = "add"    -> "ADD"
      [] op = "mul"    -> "MULT"
      [] op = "rem"    -> "MOD"
      [] op = "bitand" -> "AND"
      [] op = "bitor"  -> "OR"
      [] op = "not"    -> "NOT"
      [] OTHER         -> "none"

WordMachine(a, b) == [VM_init EXCEPT !.registers = <<a, b, 0, 0, 0, 0, 0, 0>>]

WordFields(op) ==
    IF op = "not"
    THEN <<Tagged("R", 2), Tagged("Register", 0)>>
    ELSE <<Tagged("R", 2), Tagged("Register", 0), Tagged("Register", 1)>>

word_execute(op, a, b, checks) ==
    execute(WordMachine(a, b), InstructionOf(op), WordFields(op), checks, 0)

InitWord ==
    /\ Fresh
    /\ word_in \in [op : WordOperators, a : WordSamples, b : WordSamples]
    /\ word_out = NoWordOut
    /\ codec_in = HALT_I
    /\ codec_out = NoCodec

WordApply ==
    /\ ~word_out.done
    /\ word_in.op \notin {"add", "mul", "rem", "bitand", "bitor", "not"}
    /\ word_out' = [done |-> TRUE,
                    res |-> word_apply(word_in.op, word_in.a, word_in.b, overflow_checks),
                    executed |-> FALSE,
                    reg |-> Panicked]
    /\ UNCHANGED <<vm_vars, overflow_checks, word_in, codec_in, codec_out>>

WordExecute ==
    /\ ~word_out.done
    /\ word_in.op \in {"add", "mul", "rem", "bitand", "bitor", "not"}
    /\ \E o \in {word_execute(word_in.op, word_in.a, word_in.b, overflow_checks)} :
           word_out' = [done |-> TRUE,
                        res |-> word_apply(word_in.op, word_in.a, word_in.b, overflow_checks),
                        executed |-> TRUE,
                        reg |-> IF o.res.kind = "Ok" THEN Val(o.m.registers[3]) ELSE Panicked]
    /\ UNCHANGED <<vm_vars, overflow_checks, word_in, codec_in, codec_out>>

NextWord == WordApply \/ WordExecute

SpecWord == InitWord /\ [][NextWord]_vars

-----------------------------------------------------------------------------
(* The codec on its own: InitCodec draws a legal Instruction, Encode is      *)
(* to_u16_sequence, Decode is from_u16_sequence on the words it gave.        *)

RegisterFields == {Tagged("R", k) : k \in {0, 1, 7}}

ArgumentFields ==
    {Tagged("Literal", v) : v \in {0, 1, 123, U15_MAX}}
    \cup {Tagged("Register", k) : k \in {0, 1, 7}}

AddressFields == {Tagged("Address", v) : v \in {0, 123, U15_MAX, REGISTER_0, REGISTER_7}}

FieldsOf(kind) ==
    CASE kind = "R" -> RegisterFields
      [] kind = "A" -> ArgumentFields
      [] kind = "D" -> AddressFields

(* the variants as the enum Instruction declares them *)
Declared ==
    {<<"HALT">>, <<"SET", "R", "A">>, <<"PUSH", "A">>, <<"POP", "R">>,
     <<"EQ", "R", "A", "A">>, <<"GT", "R", "A", "A">>, <<"JMP", "A">>,
     <<"JT", "A", "A">>, <<"JF", "A", "A">>, <<"ADD", "R", "A", "A">>,
     <<"MULT", "R", "A", "A">>, <<"MOD", "R", "A", "A">>, <<"AND", "R", "A", "A">>,
     <<"OR", "R", "A", "A">>, <<"NOT", "R", "A">>, <<"RMEM", "R", "D">>,
     <<"WMEM", "D", "A">>, <<"CALL", "D">>, <<"RET">>, <<"OUT", "A">>, <<"IN", "D">>,
     <<"NOOP">>}

InstructionsOf(d) ==
    {Instr(d[1], args) : args \in {f \in [1 .. (Len(d) - 1) -> RegisterFields \cup ArgumentFields \cup AddressFields] :
                                       \A k \in 1 .. (Len(d) - 1) : f[k] \in FieldsOf(d[k + 1])}}

LegalInstructions == UNION {InstructionsOf(d) : d \in Declared}

InitCodec ==
    /\ Fresh
    /\ word_in = NoWord
    /\ word_out = NoWordOut
    /\ codec_in \in LegalInstructions
    /\ codec_out = NoCodec

Encode ==
    /\ codec_out.phase = "none"
    /\ codec_out' = [codec_out EXCEPT !.phase = "encoded", !.seq = to_u16_sequence(codec_in)]
    /\ UNCHANGED <<vm_vars, overflow_checks, word_in, word_out, codec_in>>

Decode ==
    /\ codec_out.phase = "encoded"
    /\ \E d \in {from_u16_sequence(codec_out.seq, overflow_checks)} :
           codec_out' = [codec_out EXCEPT !.phase = "decoded", !.tag = d.tag, !.i = d.i]
    /\ UNCHANGED <<vm_vars, overflow_checks, word_in, word_out, codec_in>>

(* words that are no opcode *)
OutsideOpcodes == {22, 23, U8_RANGE - 1, U15_MAX, REGISTER_0, U16_RANGE - 1}

(* Instruction::arg_count(opcode), called with the opcode of the encoded     *)
(* instruction or, before any encoding, with a word that is no opcode        *)
ArgCount(opcode) ==
    /\ ~codec_out.counted
    /\ \/ codec_out.phase = "none" /\ opcode \in OutsideOpcodes
       \/ codec_out.phase = "encoded" /\ opcode = codec_out.seq[1]
    /\ codec_out' = [codec_out EXCEPT !.counted = TRUE, !.opcode = opcode,
                                      !.count = arg_count(opcode)]
    /\ UNCHANGED <<vm_vars, overflow_checks, word_in, word_out, codec_in>>

NextCodec == Encode \/ Decode \/ \E opcode \in OutsideOpcodes \cup (0 .. 21) : ArgCount(opcode)

SpecCodec == InitCodec /\ [][NextCodec]_vars

-----------------------------------------------------------------------------
(* Properties of the machine under Spec. last is the machine before the last *)
(* step with what that step fetched and returned; between that step and the  *)
(* next, registers, memory and stack are what the step left.                 *)

StepReturned == last.res.kind \in {"Ok", "Err"}

(* the value a fetched operand word stands for before the step *)
Resolved(w) == IF w < REGISTER_0 THEN w ELSE last.m.registers[w - REGISTER_0 + 1]

(* the register a fetched register word names, as an index of registers *)
Destination == last.seq[2] - REGISTER_0 + 1

Executed(name) == last.name = name

(* C1: whenever a step has returned, with a state or with an error, the      *)
(* instruction pointer is a memory address, 0 <= ip <= 32767.                *)
C1_InstructionPointerInMemory ==
    StepReturned => (0 <= instruction_pointer /\ instruction_pointer <= U15_MAX)

(* a step returned with the pointer at the last memory address *)
C1_Witness == StepReturned /\ instruction_pointer = U15_MAX

WordsOf(seq) == {seq[k] : k \in 1 .. Len(seq)}

(* C2 (as stated): every register and every memory cell holds a value of at  *)
(* most 32767.                                                               *)
C2_AllCellsAreWords ==
    /\ \A k \in 1 .. 8 : registers[k] <= U15_MAX
    /\ \A a \in DOMAIN memory : memory[a] <= U15_MAX

(* C2 (amended): every register and every memory cell holds a value of at    *)
(* most 32767 or a word that was given to load_program.                      *)
C2_CellsAreWordsOrLoaded ==
    /\ \A k \in 1 .. 8 : registers[k] <= U15_MAX \/ registers[k] \in WordsOf(loaded.bytecode)
    /\ \A a \in DOMAIN memory : memory[a] <= U15_MAX \/ memory[a] \in WordsOf(loaded.bytecode)

(* RMEM has copied a loaded word above 32767 into a register *)
C2_Witness == Executed("RMEM") /\ last.res.kind = "Ok" /\ registers[Destination] > U15_MAX

(* C3: whenever run returns Ok, the returned state is HALT and the machine's *)
(* current_state is HALT.                                                    *)
C3_RunOkIsHalted ==
    (pc = "idle" /\ result.by = "run" /\ result.kind = "Ok")
        => (result.val = "HALT" /\ current_state = "HALT" /\ ~is_running(Machine))

(* run has returned Ok after at least two steps *)
C3_Witness == pc = "idle" /\ result.by = "run" /\ result.kind = "Ok" /\ steps >= 2

(* C4 (as stated): whenever run returns an error, current_state is HALT      *)
(* afterwards.                                                               *)
C4_RunErrIsHalted ==
    (pc = "idle" /\ result.by = "run" /\ result.kind = "Err") => current_state = "HALT"

ExecutionErrors ==
    {"StackUnderflow", "JumpOutOfBounds", "InvalidMemoryAccess", "InvalidCharacterArgument"}

(* C5 (as stated): when step returns an error raised while executing a       *)
(* decoded instruction, registers, memory and stack are as before the step.  *)
C5_ExecutionErrorKeepsState ==
    (last.name # "none" /\ last.res.kind = "Err" /\ last.res.val \in ExecutionErrors)
        => (registers = last.m.registers /\ memory = last.m.memory /\ stack = last.m.stack)

(* C6: ADD r a b with a, b resolving to values in 0..32767 returns RUN and   *)
(* sets r to (a + b) mod 32768, a and b taken from the registers before the  *)
(* step.                                                                     *)
C6_AddIsModular ==
    (Executed("ADD") /\ Resolved(last.seq[3]) <= U15_MAX /\ Resolved(last.seq[4]) <= U15_MAX)
        => /\ last.res = Ok("RUN")
           /\ registers[Destination] = (Resolved(last.seq[3]) + Resolved(last.seq[4])) % MODULUS

(* an ADD whose destination is also a source and whose sum wraps *)
C6_Witness ==
    /\ Executed("ADD")
    /\ last.seq[2] = last.seq[3]
    /\ Resolved(last.seq[3]) <= U15_MAX /\ Resolved(last.seq[4]) <= U15_MAX
    /\ Resolved(last.seq[3]) + Resolved(last.seq[4]) > U15_MAX

(* C7 (as stated): MULT r a b with a, b resolving to values in 0..32767      *)
(* succeeds and sets r to (a * b) mod 32768.                                 *)
C7_MultIsModular ==
    (Executed("MULT") /\ Resolved(last.seq[3]) <= U15_MAX /\ Resolved(last.seq[4]) <= U15_MAX)
        => /\ last.res = Ok("RUN")
           /\ registers[Destination] = (Resolved(last.seq[3]) * Resolved(last.seq[4])) % MODULUS

(* C8: NOT r a with a resolving to a value in 0..32767 sets r to the low 15  *)
(* bits of the complement of a, which is 32767 - a.                          *)
C8_NotIsComplement ==
    (Executed("NOT") /\ Resolved(last.seq[3]) <= U15_MAX)
        => /\ last.res = Ok("RUN")
           /\ registers[Destination] = U15_MAX - Resolved(last.seq[3])

(* NOT of 0 has given 32767 *)
C8_Witness ==
    Executed("NOT") /\ Resolved(last.seq[3]) = 0 /\ registers[Destination] = U15_MAX

(* C12: a step that executes SET, POP, EQ, GT, ADD, MULT, MOD, AND, OR, NOT  *)
(* or RMEM leaves every memory cell as it was, and a step that executes WMEM *)
(* leaves the eight registers as they were.                                  *)
C12_MemoryIsolation ==
    StepReturned =>
        /\ last.name \in {"SET", "POP", "EQ", "GT", "ADD", "MULT", "MOD", "AND", "OR", "NOT", "RMEM"}
               => memory = last.m.memory
        /\ Executed("WMEM") => registers = last.m.registers

(* a WMEM whose target came from a register has changed a memory cell *)
C12_Witness ==
    /\ Executed("WMEM") /\ last.res = Ok("RUN")
    /\ last.seq[2] >= REGISTER_0
    /\ memory # last.m.memory

(* C13 (as stated): a POP R that is the step after a PUSH x sets R to the    *)
(* value x resolved to at the PUSH and leaves the stack as it was before the *)
(* PUSH.                                                                     *)
C13_PushPopRoundTrip ==
    (Executed("POP") /\ last.prev.name = "PUSH" /\ last.prev.res = Ok("RUN")
     /\ last.m.stack = Append(last.prev.m.stack, Top(last.m)))
        => /\ last.res = Ok("RUN")
           /\ registers[Destination] = Top(last.m)
           /\ stack = last.prev.m.stack

(* C14: after a successful step of HALT, SET, PUSH, POP, EQ, GT, ADD, MULT,  *)
(* MOD, AND, OR, NOT, RMEM, WMEM, OUT, IN or NOOP the instruction pointer is *)
(* its value before the step plus 1 + arg_count(opcode).                     *)
C14_PointerAdvance ==
    (last.res.kind = "Ok" /\ last.name \notin {"none", "JMP", "JT", "JF", "CALL", "RET"})
        => last.after.instruction_pointer
               = last.m.instruction_pointer + 1 + arg_count(last.seq[1])

(* an EQ away from address 0 has moved the pointer by four *)
C14_Witness ==
    /\ Executed("EQ") /\ last.res = Ok("RUN")
    /\ last.m.instruction_pointer > 0
    /\ last.after.instruction_pointer = last.m.instruction_pointer + 4

(* C15: a CALL t fetched at address p whose target resolves to a memory      *)
(* address pushes p + 2, and nothing else, on the stack and sets the         *)
(* instruction pointer to the target; registers and memory stay as they were.*)
C15_CallPushesReturnAddress ==
    (Executed("CALL") /\ last.seq[2] <= REGISTER_7 /\ Resolved(last.seq[2]) <= U15_MAX)
        => /\ last.res = Ok("RUN")
           /\ last.after.stack = Append(last.m.stack, last.m.instruction_pointer + 2)
           /\ last.after.instruction_pointer = Resolved(last.seq[2])
           /\ last.after.registers = last.m.registers
           /\ last.after.memory = last.m.memory

(* a CALL through a register, on a stack that was not empty *)
C15_Witness ==
    /\ Executed("CALL") /\ last.res = Ok("RUN")
    /\ last.seq[2] >= REGISTER_0
    /\ last.m.stack # <<>>
    /\ Len(last.after.stack) = Len(last.m.stack) + 1

C17_RetOnEmptyStackHalts ==
    (Executed("RET") /\ last.m.stack = <<>>)
        => /\ last.res = Ok("HALT")
           /\ last.after.stack = <<>>
           /\ last.after.registers = last.m.registers
           /\ last.after.memory = last.m.memory
           /\ last.after.instruction_pointer = last.m.instruction_pointer + 1

(* a RET on an empty stack, away from address 0, with a register set *)
C17_Witness ==
    /\ Executed("RET") /\ last.m.stack = <<>> /\ last.res = Ok("HALT")
    /\ last.m.instruction_pointer > 0
    /\ last.m.registers[1] # 0

(* C18: a POP R executed on an empty stack makes step, and run, return       *)
(* StackUnderflow; the stack is still empty and the registers and memory are *)
(* as they were.                                                             *)
C18_PopOnEmptyStackUnderflows ==
    (Executed("POP") /\ last.m.stack = <<>>)
        => /\ last.res = Err("StackUnderflow", 0)
           /\ result.by \in {"step", "run"}
           /\ result.kind = "Err" /\ result.val = "StackUnderflow"
           /\ last.after.stack = <<>>
           /\ last.after.registers = last.m.registers
           /\ last.after.memory = last.m.memory

(* run has returned the StackUnderflow of a POP, with a register set *)
C18_Witness ==
    /\ Executed("POP") /\ last.m.stack = <<>>
    /\ result.by = "run" /\ result.val = "StackUnderflow"
    /\ pc = "idle"
    /\ last.m.registers[1] # 0

(* C19: when the target of a JMP, of a taken JT or JF, or of a CALL resolves *)
(* to a value that is no memory address (>= 32768), the step returns         *)
(* JumpOutOfBounds(target) and the instruction pointer stays at the address  *)
(* after the instruction.                                                    *)
C19_JumpOutOfBounds ==
    /\ (last.name \in {"JMP", "CALL"} /\ last.seq[2] <= REGISTER_7
        /\ Resolved(last.seq[2]) > U15_MAX)
           => /\ last.res = Err("JumpOutOfBounds", Resolved(last.seq[2]))
              /\ last.after.instruction_pointer = last.m.instruction_pointer + 2
    /\ (last.name \in {"JT", "JF"} /\ last.seq[2] <= REGISTER_7 /\ last.seq[3] <= REGISTER_7
        /\ (Executed("JT") <=> Resolved(last.seq[2]) > 0)
        /\ Resolved(last.seq[3]) > U15_MAX)
           => /\ last.res = Err("JumpOutOfBounds", Resolved(last.seq[3]))
              /\ last.after.instruction_pointer = last.m.instruction_pointer + 3

(* a taken JF whose target register holds a loaded word above 32775 *)
C19_Witness ==
    /\ Executed("JF") /\ last.seq[3] >= REGISTER_0
    /\ Resolved(last.seq[3]) > REGISTER_7
    /\ last.res.val = "JumpOutOfBounds"

(* C20: when the cell at the instruction pointer holds a word outside 0..21, *)
(* step returns BadOpcode(word), the instruction pointer has advanced by     *)
(* one, and registers, memory and stack are as they were.                    *)
C20_BadOpcode ==
    (last.res.kind # "None" /\ last.m.instruction_pointer < MEMORY_CELLS
     /\ Cell(last.m.memory, last.m.instruction_pointer) \notin 0 .. 21)
        => /\ last.res = Err("BadOpcode", Cell(last.m.memory, last.m.instruction_pointer))
           /\ last.after.instruction_pointer = last.m.instruction_pointer + 1
           /\ last.after.registers = last.m.registers
           /\ last.after.memory = last.m.memory
           /\ last.after.stack = last.m.stack

(* a step has met the word 32768 where an opcode was due, with a stack and   *)
(* registers that were not empty                                             *)
C20_Witness ==
    /\ last.res = Err("BadOpcode", REGISTER_0)
    /\ last.m.stack # <<>>
    /\ last.m.registers[1] # 0

(* C21 (as stated): when the cell at the instruction pointer holds an opcode *)
(* and one of its operand cells holds a word >= 32776, step returns          *)
(* MalformedInstruction with the words fetched, the instruction pointer is   *)
(* past all of them, and registers, memory and stack are as they were.       *)
C21_MalformedInstruction ==
    (last.res.kind # "None"
     /\ Cell(last.m.memory, last.m.instruction_pointer) \in 0 .. 21
     /\ last.m.instruction_pointer
            + arg_count(Cell(last.m.memory, last.m.instruction_pointer)) < MEMORY_CELLS
     /\ \E k \in 1 .. arg_count(Cell(last.m.memory, last.m.instruction_pointer)) :
            Cell(last.m.memory, last.m.instruction_pointer + k) > REGISTER_7)
        => /\ last.res.kind = "Err" /\ last.res.val = "MalformedInstruction"
           /\ Len(last.seq) = 1 + arg_count(last.seq[1])
           /\ \A k \in 1 .. Len(last.seq) :
                  last.seq[k] = Cell(last.m.memory, last.m.instruction_pointer + k - 1)
           /\ last.after.instruction_pointer = last.m.instruction_pointer + Len(last.seq)
           /\ last.after.registers = last.m.registers
           /\ last.after.memory = last.m.memory
           /\ last.after.stack = last.m.stack

(* C22 (as stated): every address 0..32767 can be written by load_program    *)
(* and by WMEM and read by RMEM and by the fetch of an instruction, without  *)
(* an error or a fault.                                                      *)
C22_AllAddressesUsable ==
    /\ (result.by = "load" /\ loaded.offset + Len(loaded.bytecode) <= MODULUS)
           => result.kind = "Ok"
    /\ (Executed("WMEM") /\ last.seq[2] <= REGISTER_7 /\ last.seq[3] <= REGISTER_7
        /\ Resolved(last.seq[2]) <= U15_MAX)
           => last.res = Ok("RUN")
    /\ (Executed("RMEM") /\ last.seq[3] <= REGISTER_7 /\ Resolved(last.seq[3]) <= U15_MAX)
           => last.res = Ok("RUN")
    /\ (last.res.kind # "None" /\ last.m.instruction_pointer = U15_MAX)
           => last.res.kind # "Panic"

(* C23 (as stated): RMEM r a whose source resolves to an address that is     *)
(* not valid (>= 32776) returns InvalidMemoryAccess(address) and leaves the  *)
(* registers as they were; for any other address the read returns the       *)
(* addressed cell.                                                           *)
C23_ReadMemory ==
    (Executed("RMEM") /\ last.seq[3] <= REGISTER_7)
        => IF Resolved(last.seq[3]) > REGISTER_7
           THEN /\ last.res = Err("InvalidMemoryAccess", Resolved(last.seq[3]))
                /\ last.after.registers = last.m.registers
           ELSE /\ last.res = Ok("RUN")
                /\ last.after.registers[Destination]
                       = Cell(last.m.memory, Resolved(last.seq[3]))

(* C24 (as stated): a WMEM a v whose first operand resolves to a value that  *)
(* is no memory address (>= 32768) makes step return an error, and no memory *)
(* cell and no register is changed.                                          *)
C24_WmemRejectsNonMemoryTarget ==
    (Executed("WMEM") /\ last.seq[2] <= REGISTER_7 /\ last.seq[3] <= REGISTER_7
     /\ Resolved(last.seq[2]) > U15_MAX)
        => /\ last.res.kind = "Err"
           /\ last.after.memory = last.m.memory
           /\ last.after.registers = last.m.registers

(* C25 (as stated): an OUT x whose operand resolves to a value above 127     *)
(* returns InvalidCharacterArgument and emits nothing; otherwise it appends  *)
(* exactly one byte, equal to the resolved value, and returns RUN.           *)
(* Registers, memory and stack are unchanged in both cases.                  *)
C25_OutChecksWholeValue ==
    (Executed("OUT") /\ last.seq[2] <= REGISTER_7)
        => /\ IF Resolved(last.seq[2]) > 127
              THEN /\ last.res.kind = "Err"
                   /\ last.res.val = "InvalidCharacterArgument"
                   /\ last.after.stdout = last.m.stdout
              ELSE /\ last.res = Ok("RUN")
                   /\ last.after.stdout
                        = Append(last.m.stdout, Resolved(last.seq[2]))
           /\ last.after.registers = last.m.registers
           /\ last.after.memory = last.m.memory
           /\ last.after.stack = last.m.stack

(* C26 (as stated): load_program(offset, words) with                         *)
(* offset + len(words) <= 32768 returns having set memory[offset + i] to     *)
(* words[i] for every i, leaves every other cell as it was (0 after init),   *)
(* and leaves registers, stack, instruction pointer and run state unchanged. *)
C26_LoadProgramWritesAll ==
    (result.by = "load" /\ pc \in {"idle", "panicked"}
     /\ loaded.offset + Len(loaded.bytecode) <= MODULUS)
        => /\ result.kind = "Ok"
           /\ \A i \in 1 .. Len(loaded.bytecode) :
                  Cell(memory, loaded.offset + i - 1) = loaded.bytecode[i]
           /\ \A a \in DOMAIN memory :
                  a \in loaded.offset .. loaded.offset + Len(loaded.bytecode) - 1
           /\ registers = VM_init.registers
           /\ stack = VM_init.stack
           /\ instruction_pointer = VM_init.instruction_pointer
           /\ current_state = VM_init.current_state

(* C27: EQ r a b sets r to 1 if the resolved values of a and b are equal and *)
(* to 0 otherwise; GT r a b sets r to 1 if the resolved value of a is        *)
(* strictly greater than that of b and to 0 otherwise. The operands are      *)
(* resolved from the registers before the step, even when r is one of them,  *)
(* and no other register changes.                                            *)
C27_EqGt ==
    /\ Executed("EQ") =>
           /\ last.res = Ok("RUN")
           /\ last.after.registers
                = [last.m.registers EXCEPT ![Destination] =
                       IF Resolved(last.seq[3]) = Resolved(last.seq[4]) THEN 1 ELSE 0]
    /\ Executed("GT") =>
           /\ last.res = Ok("RUN")
           /\ last.after.registers
                = [last.m.registers EXCEPT ![Destination] =
                       IF Resolved(last.seq[3]) > Resolved(last.seq[4]) THEN 1 ELSE 0]

(* a GT whose destination is also its first operand has overwritten a value  *)
(* above 1 with the 1 of the comparison                                      *)
C27_Witness ==
    /\ Executed("GT") /\ last.res = Ok("RUN")
    /\ last.seq[2] = last.seq[3]
    /\ Resolved(last.seq[3]) > Resolved(last.seq[4])
    /\ last.m.registers[Destination] > 1
    /\ last.after.registers[Destination] = 1

(* C28 (as stated): JT a b sets the instruction pointer to the resolved      *)
(* value of b exactly when a resolves to non-zero, JF a b exactly when a     *)
(* resolves to zero; otherwise the pointer is the pre-step pointer + 3.      *)
(* Registers, memory and stack are unchanged either way.                     *)
C28_JumpsAlwaysTaken ==
    (last.name \in {"JT", "JF"}) =>
        /\ last.after.instruction_pointer
             = IF (last.name = "JT") = (Resolved(last.seq[2]) # 0)
               THEN Resolved(last.seq[3])
               ELSE last.m.instruction_pointer + 3
        /\ last.after.registers = last.m.registers
        /\ last.after.memory = last.m.memory
        /\ last.after.stack = last.m.stack

(* C28 (amended): the same for a b that resolves to a memory address, where  *)
(* the step returns RUN; when the condition holds and b resolves to 32768 or *)
(* more, the step returns JumpOutOfBounds and the pointer is the pre-step    *)
(* pointer + 3.                                                              *)
C28_ConditionalJump ==
    (last.name \in {"JT", "JF"}) =>
        /\ IF (last.name = "JT") = (Resolved(last.seq[2]) # 0)
           THEN IF Resolved(last.seq[3]) <= U15_MAX
                THEN /\ last.res = Ok("RUN")
                     /\ last.after.instruction_pointer = Resolved(last.seq[3])
                ELSE /\ last.res = Err("JumpOutOfBounds", Resolved(last.seq[3]))
                     /\ last.after.instruction_pointer = last.m.instruction_pointer + 3
           ELSE /\ last.res = Ok("RUN")
                /\ last.after.instruction_pointer = last.m.instruction_pointer + 3
        /\ last.after.registers = last.m.registers
        /\ last.after.memory = last.m.memory
        /\ last.after.stack = last.m.stack

(* a JT on a register holding a non-zero value has jumped to the address     *)
(* held by another register                                                  *)
C28_Witness ==
    /\ Executed("JT") /\ last.res = Ok("RUN")
    /\ last.seq[2] >= REGISTER_0 /\ last.seq[3] >= REGISTER_0
    /\ Resolved(last.seq[2]) # 0
    /\ last.after.instruction_pointer = Resolved(last.seq[3])
    /\ last.after.instruction_pointer # last.m.instruction_pointer + 3

(* C29 (as stated): a MOD r a b whose b resolves to 0 makes step return an   *)
(* error value, and the destination register, every other register, memory  *)
(* and stack are unchanged.                                                  *)
C29_ModByZeroIsError ==
    (Executed("MOD") /\ Resolved(last.seq[4]) = 0)
        => /\ last.res.kind = "Err"
           /\ last.after.registers = last.m.registers
           /\ last.after.memory = last.m.memory
           /\ last.after.stack = last.m.stack

(* C30: for operands that resolve to values in 0..32767, MOD r a b with      *)
(* b # 0 sets r to a mod b, AND r a b sets r to the bitwise and of a and b   *)
(* and OR r a b to their bitwise or (bit k of the result is set exactly when *)
(* it is set in both, respectively in either, operand); each step returns    *)
(* RUN and changes no register other than r.                                 *)
C30_ModAndOr ==
    LET a == Resolved(last.seq[3])
        b == Resolved(last.seq[4])
        r == last.after.registers[Destination]
        BitsOf(x) == {k \in 0 .. U16_BITS - 1 : (x \div 2^k) % 2 = 1}
    IN  (last.name \in {"MOD", "AND", "OR"} /\ a <= U15_MAX /\ b <= U15_MAX
         /\ (last.name = "MOD" => b # 0))
            => /\ last.res = Ok("RUN")
               /\ \A k \in 1 .. 8 :
                      k # Destination => last.after.registers[k] = last.m.registers[k]
               /\ last.name = "MOD" => r = a % b
               /\ last.name = "AND" => BitsOf(r) = BitsOf(a) \cap BitsOf(b)
               /\ last.name = "OR"  => BitsOf(r) = BitsOf(a) \cup BitsOf(b)

(* an OR of two different non-zero values has written a third value to a     *)
(* register that is one of its operands                                      *)
C30_Witness ==
    /\ Executed("OR") /\ last.res = Ok("RUN")
    /\ Resolved(last.seq[3]) \in 1 .. U15_MAX
    /\ Resolved(last.seq[4]) \in 1 .. U15_MAX
    /\ last.seq[2] \in {last.seq[3], last.seq[4]}
    /\ last.after.registers[Destination]
         \notin {Resolved(last.seq[3]), Resolved(last.seq[4])}

(* C31 (as stated): a RET on a non-empty stack removes exactly the top       *)
(* entry and takes that raw value as the target: below 32768 the instruction *)
(* pointer becomes that value, otherwise the step returns JumpOutOfBounds    *)
(* for that value; the value is never read through a register.              *)
C31_RetTargetIsRawValue ==
    (Executed("RET") /\ last.m.stack # <<>>)
        => /\ last.after.stack = SubSeq(last.m.stack, 1, Len(last.m.stack) - 1)
           /\ IF Top(last.m) <= U15_MAX
              THEN /\ last.res = Ok("RUN")
                   /\ last.after.instruction_pointer = Top(last.m)
              ELSE last.res = Err("JumpOutOfBounds", Top(last.m))

(* C32 (as stated): an RMEM r a whose source resolves to a register-class    *)
(* value (32768..32775) makes step return an access error as a value, and    *)
(* register r keeps its content.                                              *)
C32_RmemRegisterClassSource ==
    (Executed("RMEM") /\ last.seq[3] <= REGISTER_7
     /\ Resolved(last.seq[3]) \in REGISTER_0 .. REGISTER_7)
        => /\ last.res.kind = "Err"
           /\ last.res.val = "InvalidMemoryAccess"
           /\ last.after.registers[Destination] = last.m.registers[Destination]

(* C33 (as stated): advancing the instruction pointer never faults and never *)
(* leaves the pointer outside 0..32767; a step whose fetch stops before all  *)
(* the words of its instruction are read (execution has run off the end of   *)
(* memory) returns an access error as a value.                               *)
C33_AdvanceNeverFaults ==
    /\ last.res.kind \in {"Ok", "Err"} => last.after.instruction_pointer <= U15_MAX
    /\ (last.res.kind # "None"
        /\ (last.seq = <<>> \/ Len(last.seq) < 1 + arg_count(last.seq[1])))
           => /\ last.res.kind = "Err"
              /\ last.res.val = "InvalidMemoryAccess"

(* C34 (as stated): when a valid opcode is fetched at an address p so close  *)
(* to the end of memory that its argument words would be read past cell      *)
(* 32767, step returns BadOpcode for that opcode and registers, memory and   *)
(* stack are unchanged.                                                      *)
C34_ArityPastMemoryEnd ==
    (last.res.kind # "None" /\ last.seq # <<>> /\ arg_count(last.seq[1]) >= 0
     /\ last.m.instruction_pointer + arg_count(last.seq[1]) > U15_MAX)
        => /\ last.res = Err("BadOpcode", last.seq[1])
           /\ last.after.registers = last.m.registers
           /\ last.after.memory = last.m.memory
           /\ last.after.stack = last.m.stack

(* C35: after a WMEM a v that returned RUN, cell a holds the value v         *)
(* resolved to and every other cell is as it was; an RMEM r a that is the    *)
(* next step sets r to that value; and when the next step, or the step after *)
(* an instruction that writes no memory, fetches at address a, the opcode it *)
(* fetches is that value.                                                    *)
C35_WmemVisible ==
    LET In(b, w) == IF w < REGISTER_0 THEN w ELSE b.m.registers[w - REGISTER_0 + 1]
        Wrote(b) == b.name = "WMEM" /\ b.res = Ok("RUN")
    IN  /\ (Executed("WMEM") /\ last.res = Ok("RUN"))
               => last.after.memory
                    = SetCell(last.m.memory, Resolved(last.seq[2]), Resolved(last.seq[3]))
        /\ (Executed("RMEM") /\ Wrote(last.prev)
            /\ Resolved(last.seq[3]) = In(last.prev, last.prev.seq[2]))
               => /\ last.res = Ok("RUN")
                  /\ last.after.registers[Destination] = In(last.prev, last.prev.seq[3])
        /\ (last.res.kind # "None" /\ Wrote(last.prev)
            /\ last.m.instruction_pointer = In(last.prev, last.prev.seq[2]))
               => /\ last.seq # <<>>
                  /\ last.seq[1] = In(last.prev, last.prev.seq[3])
        /\ (last.res.kind # "None" /\ Wrote(last.prev2)
            /\ last.prev.name \notin {"WMEM", "IN"} /\ last.prev.res.kind = "Ok"
            /\ last.m.instruction_pointer = In(last.prev2, last.prev2.seq[2]))
               => /\ last.seq # <<>>
                  /\ last.seq[1] = In(last.prev2, last.prev2.seq[3])

(* WMEM t 21; RMEM R1 t, loaded with HALT in cell t, has been stepped three   *)
(* times: R1 holds 21 and the third step decoded the NOOP the WMEM wrote     *)
C35_Witness ==
    /\ Executed("NOOP") /\ last.res = Ok("RUN")
    /\ last.prev.name = "RMEM" /\ last.prev2.name = "WMEM"
    /\ last.m.instruction_pointer = last.prev2.seq[2]
    /\ last.prev2.m.memory # last.m.memory
    /\ loaded.bytecode[7] = 0
    /\ last.m.registers[2] = 21

(* C36: a literal operand w yields w and a register operand Ri the content   *)
(* of register i, read once: SET r x sets r to w, or to the content of Ri    *)
(* even when that content is itself a register word, and changes no other    *)
(* register; JMP Ri sets the instruction pointer to the content of Ri when   *)
(* that is a memory address; and SET R0 15; JMP R0 run from the fresh        *)
(* machine returns Ok(HALT) with the pointer at 16.                          *)
C36_OperandResolution ==
    /\ Executed("SET") =>
           /\ last.res = Ok("RUN")
           /\ last.after.registers
                = [last.m.registers EXCEPT ![Destination] =
                       IF last.seq[3] < REGISTER_0 THEN last.seq[3]
                       ELSE last.m.registers[last.seq[3] - REGISTER_0 + 1]]
    /\ (Executed("JMP") /\ last.seq[2] >= REGISTER_0
        /\ last.m.registers[last.seq[2] - REGISTER_0 + 1] <= U15_MAX)
           => /\ last.res = Ok("RUN")
              /\ last.after.instruction_pointer
                   = last.m.registers[last.seq[2] - REGISTER_0 + 1]
    /\ (pc = "idle" /\ result.by = "run" /\ last.run_from = 0
        /\ loaded.bytecode = Scenario("setjmp", loaded.offset))
           => /\ result.kind = "Ok" /\ result.val = "HALT"
              /\ registers[1] = 15
              /\ instruction_pointer = 16

(* SET R0 15; JMP R0, loaded at 0, has been run from the fresh machine to    *)
(* the HALT in cell 15                                                       *)
C36_Witness ==
    /\ pc = "idle" /\ result.by = "run" /\ result.kind = "Ok" /\ last.run_from = 0
    /\ loaded = [offset |-> 0, bytecode |-> Scenario("setjmp", 0)]
    /\ last.name = "HALT" /\ last.prev.name = "JMP" /\ last.prev2.name = "SET"
    /\ instruction_pointer = 16

(* C37 (as stated): EQ r a b sets r to 1 exactly when the resolved values of *)
(* a and b agree in their low 15 bits, and GT r a b sets r to 1 exactly when *)
(* the low 15 bits of a are greater than those of b, also when a register    *)
(* operand holds a value with bit 15 set.                                    *)
C37_CompareLow15Bits ==
    /\ (Executed("EQ") /\ last.res = Ok("RUN")) =>
           last.after.registers[Destination]
             = IF Resolved(last.seq[3]) % MODULUS = Resolved(last.seq[4]) % MODULUS
               THEN 1 ELSE 0
    /\ (Executed("GT") /\ last.res = Ok("RUN")) =>
           last.after.registers[Destination]
             = IF Resolved(last.seq[3]) % MODULUS > Resolved(last.seq[4]) % MODULUS
               THEN 1 ELSE 0

(* C38: step does not modify current_state: the machine a step leaves has    *)
(* the current_state it found, and after a directly called step has returned *)
(* (a state or an error) is_running() has the value it had before the call.  *)
C38_StepKeepsRunState ==
    /\ last.res.kind \in {"Ok", "Err"}
           => last.after.current_state = last.m.current_state
    /\ (pc = "idle" /\ result.by = "step")
           => /\ current_state = last.m.current_state
              /\ is_running(Machine) = is_running(last.m)

(* after a run that returned an error and left current_state at RUN, a       *)
(* directly called step has returned Ok(HALT) and the machine is still       *)
(* running                                                                   *)
C38_Witness ==
    /\ pc = "idle" /\ result.by = "step"
    /\ result.kind = "Ok" /\ result.val = "HALT"
    /\ is_running(Machine)

(* C39 (as stated): a program of one or two instructions that are not        *)
(* control instructions or IN and that do not fail, loaded at offset o into  *)
(* the fresh machine and ending at a cell e < 32767, is run by run(o) to     *)
(* Ok(HALT): once each instruction has been executed once, in address order, *)
(* and the pointer is at the zero cell e + 1, the run returns Ok(HALT) with  *)
(* the pointer at e + 2.                                                     *)
C39_StraightLineRunHalts ==
    LET e == loaded.offset + Len(loaded.bytecode) - 1
        Straight(b) ==
            /\ b.name \in {"NOOP", "SET", "PUSH", "POP", "EQ", "GT", "ADD", "MULT", "MOD",
                           "AND", "OR", "NOT", "RMEM", "WMEM", "OUT"}
            /\ b.res = Ok("RUN")
    IN  (/\ last.run_from = 0 /\ result.by = "run" /\ pc \in {"idle", "panicked"}
         /\ loaded.bytecode # <<>> /\ e < U15_MAX
         /\ last.m.instruction_pointer = e + 1
         /\ Cell(last.m.memory, e + 1) = 0
         /\ Straight(last.prev)
         /\ last.prev.m.instruction_pointer + Len(last.prev.seq) = e + 1
         /\ \/ steps = 2 /\ last.prev.m.instruction_pointer = loaded.offset
            \/ /\ steps = 3 /\ Straight(last.prev2)
               /\ last.prev2.m.instruction_pointer = loaded.offset
               /\ last.prev2.m.instruction_pointer + Len(last.prev2.seq)
                    = last.prev.m.instruction_pointer)
            => /\ pc = "idle"
               /\ result.kind = "Ok" /\ result.val = "HALT"
               /\ last.name = "HALT"
               /\ instruction_pointer = e + 2

(* C40: in every step that returns, the stack depth changes by at most one:  *)
(* PUSH and CALL append exactly one entry on top, POP and RET on a non-empty *)
(* stack remove exactly the top entry, the entries below the top are as they *)
(* were, and every other instruction and every decode error leave the stack  *)
(* unchanged; load_program leaves the stack as init made it.                 *)
C40_StackDiscipline ==
    /\ last.res.kind \in {"Ok", "Err"} =>
           CASE last.name \in {"PUSH", "CALL"} ->
                    /\ Len(last.after.stack) = Len(last.m.stack) + 1
                    /\ SubSeq(last.after.stack, 1, Len(last.m.stack)) = last.m.stack
             [] last.name \in {"POP", "RET"} /\ last.m.stack # <<>> ->
                    last.after.stack = SubSeq(last.m.stack, 1, Len(last.m.stack) - 1)
             [] OTHER -> last.after.stack = last.m.stack
    /\ (result.by = "load" /\ pc = "idle") => stack = VM_init.stack

(* a PUSH on a stack that already held an entry has put one entry on top of  *)
(* it                                                                        *)
C40_Witness ==
    /\ Executed("PUSH") /\ last.res = Ok("RUN")
    /\ last.m.stack # <<>>
    /\ last.after.stack = Append(last.m.stack, Resolved(last.seq[2]))

-----------------------------------------------------------------------------
(* Properties of the u15 operators under SpecWord. *)

InWordRange(r) == r.panic \/ (0 <= r.v /\ r.v <= U15_MAX)

(* C9: every value a Word operation yields from Words (operands in          *)
(* 0..32767) without failing lies in 0..32767, and so does the value ADD,    *)
(* MULT, MOD, AND, OR and NOT write to their destination register.           *)
C9_WordResultsInRange ==
    (word_out.done /\ word_in.a <= U15_MAX /\ word_in.b <= U15_MAX)
        => (InWordRange(word_out.res) /\ InWordRange(word_out.reg))

-----
(* Properties of the codec under SpecCodec. *)

(* C10: for every legal instruction I, decoding the words I is encoded as    *)
(* yields Some(I).                                                           *)
C10_CodecRoundTrip ==
    codec_out.phase = "decoded" => (codec_out.tag = "Some" /\ codec_out.i = codec_in)

(* a WMEM whose address is a register reference and whose value is a         *)
(* register has been encoded and decoded                                     *)
C10_Witness ==
    /\ codec_out.phase = "decoded"
    /\ codec_in.name = "WMEM"
    /\ codec_in.args[1].v = REGISTER_0
    /\ codec_in.args[2].tag = "Register"
    /\ codec_out.seq = <<16, REGISTER_0, REGISTER_7>>

(* C11: for every opcode o in 0..21, arg_count(o) is Some(n) and the         *)
(* encoding of an instruction with opcode o has exactly n + 1 words, the     *)
(* first of them o; for a word outside 0..21 arg_count is None.              *)
C11_ArgCountConsistent ==
    codec_out.counted =>
        IF codec_out.opcode \in 0 .. 21
        THEN /\ codec_out.count >= 0
             /\ codec_out.phase # "none" =>
                    /\ Len(codec_out.seq) = codec_out.count + 1
                    /\ codec_out.seq[1] = codec_out.opcode
                    /\ codec_out.opcode = opcode_word(codec_in.name)
        ELSE codec_out.count = -1

(* the arguments of an encoded EQ, a three-field variant, have been counted *)
C11_Witness ==
    /\ codec_out.counted
    /\ codec_out.phase = "encoded"
    /\ codec_in.name = "EQ"
    /\ codec_out.count = 3
    /\ Len(codec_out.seq) = 4

====
